---- MODULE Spec2Model ----
(***************************************************************************)
(* A model of fetch_product_units.py: the input reader                     *)
(* (read_product_numbers and its helpers), the payload unwrapping          *)
(* (parse_units_payload), the row flattening and the driver (main).        *)
(*                                                                         *)
(* Text is a sequence of one-character strings, so that strip(), lower(),  *)
(* startswith() and the csv split are computed as Python computes them.    *)
(* An input file is the sequence of its lines, each without its line       *)
(* terminator.  No line holds a quote character, so csv.reader splits a    *)
(* line at every delimiter.                                                *)
(***************************************************************************)
EXTENDS Integers, Sequences, FiniteSets

(***************************************************************************)
(* Bounds of the model.                                                    *)
(***************************************************************************)
\* longest input file of the reader's specification, in lines
MaxLines == 3
\* longest input file of the driver's specification, in lines
MaxDriverLines == 4
\* longest list inside an API payload of the payload specification
MaxItems == 2

(***************************************************************************)
(* Text helpers: str.strip, str.lower, str.startswith.                     *)
(***************************************************************************)
Whitespace == {" ", "\t", "\n", "\r"}

UpperLetters == <<"A","B","C","D","E","F","G","H","I","J","K","L","M",
                  "N","O","P","Q","R","S","T","U","V","W","X","Y","Z">>
LowerLetters == <<"a","b","c","d","e","f","g","h","i","j","k","l","m",
                  "n","o","p","q","r","s","t","u","v","w","x","y","z">>

UpperSet == {UpperLetters[i] : i \in 1..Len(UpperLetters)}

LowerOf == [c \in UpperSet |->
              LowerLetters[CHOOSE i \in 1..Len(UpperLetters) : UpperLetters[i] = c]]

LowerChar(c) == IF c \in UpperSet THEN LowerOf[c] ELSE c

Lower(s) == [i \in 1..Len(s) |-> LowerChar(s[i])]

RECURSIVE LStrip(_, _)
LStrip(s, cs) ==
    IF s = <<>> THEN s
    ELSE IF Head(s) \in cs THEN LStrip(Tail(s), cs) ELSE s

RECURSIVE RStrip(_, _)
RStrip(s, cs) ==
    IF s = <<>> THEN s
    ELSE IF s[Len(s)] \in cs THEN RStrip(SubSeq(s, 1, Len(s) - 1), cs) ELSE s

\* s.strip(cs)
StripChars(s, cs) == RStrip(LStrip(s, cs), cs)

\* s.strip()
Strip(s) == StripChars(s, Whitespace)

StartsWith(s, prefix) ==
    /\ Len(s) >= Len(prefix)
    /\ SubSeq(s, 1, Len(prefix)) = prefix

Occurs(c, s) == \E i \in 1..Len(s) : s[i] = c

\* "product", the prefix of a header-looking line (line 119)
ProductPrefix == <<"p","r","o","d","u","c","t">>

(***************************************************************************)
(* csv.reader on one line without quotes: an empty line is the empty row,  *)
(* any other line is split at every delimiter.                             *)
(***************************************************************************)
RECURSIVE SplitAt(_, _)
SplitAt(s, d) ==
    IF ~Occurs(d, s) THEN <<s>>
    ELSE LET i == CHOOSE k \in 1..Len(s) :
                      /\ s[k] = d
                      /\ \A j \in 1..(k - 1) : s[j] # d
         IN  <<SubSeq(s, 1, i - 1)>> \o SplitAt(SubSeq(s, i + 1, Len(s)), d)

CsvRow(line, d) == IF line = <<>> THEN <<>> ELSE SplitAt(line, d)

(***************************************************************************)
(* detect_delimiter.  csv.Sniffer is a frequency heuristic of the standard *)
(* library; with delimiters=";,\t," it answers one of ; , TAB that occurs  *)
(* in the sample, or raises csv.Error, which the code turns into ";".      *)
(* The model allows every such answer.                                     *)
(***************************************************************************)
SniffDelimiters == {";", ",", "\t"}

detect_delimiter(f) ==
    {d \in SniffDelimiters : \E i \in 1..Len(f) : Occurs(d, f[i])} \cup {";"}

(***************************************************************************)
(* get_product_number_field.                                               *)
(***************************************************************************)
candidates ==
    << <<"p","r","o","d","u","c","t","_","n","u","m","b","e","r">>,
       <<"p","r","o","d","u","c","t","n","u","m","b","e","r">>,
       <<"p","r","o","d","u","c","t"," ","n","o">>,
       <<"p","r","o","d","u","c","t","_","n","o">>,
       <<"p","r","o","d","u","c","t"," ","n","r">>,
       <<"p","r","o","d","u","c","t","n","r">>,
       <<"i","t","e","m","n","u","m","b","e","r">>,
       <<"s","k","u">>,
       <<"v","a","r","e","n","u","m","m","e","r">> >>

Normalize(name) == Lower(Strip(name))

\* the keys of the dict "normalized" (line 71), column by column
NormalizedNames(fieldnames) ==
    [k \in 1..Len(fieldnames) |-> Normalize(fieldnames[k])]

\* "key in normalized", given the keys
InNormalized(keys, key) == \E k \in 1..Len(keys) : keys[k] = key

\* normalized[key]: the dict comprehension keeps the last name of a key
NormalizedLookup(fieldnames, keys, key) ==
    LET i == CHOOSE k \in 1..Len(keys) :
                 /\ keys[k] = key
                 /\ \A j \in (k + 1)..Len(keys) : keys[j] # key
    IN  fieldnames[i]

HasCandidate(fieldnames) ==
    LET keys == NormalizedNames(fieldnames)
    IN  \E c \in 1..Len(candidates) : InNormalized(keys, candidates[c])

\* the field name chosen for a non-empty header (lines 71-87)
get_product_number_field(fieldnames) ==
    LET keys == NormalizedNames(fieldnames)
    IN  IF \E c \in 1..Len(candidates) : InNormalized(keys, candidates[c])
        THEN LET c == CHOOSE k \in 1..Len(candidates) :
                          /\ InNormalized(keys, candidates[k])
                          /\ \A j \in 1..(k - 1) : ~InNormalized(keys, candidates[j])
             IN  NormalizedLookup(fieldnames, keys, candidates[c])
        ELSE fieldnames[1]

(***************************************************************************)
(* csv.DictReader: the first line is the header, whatever it holds; rows   *)
(* that are empty are skipped; row.get(field) is the cell under the last   *)
(* header column of that name, None when the row is too short.             *)
(***************************************************************************)
Fieldnames(f, d) == IF f = <<>> THEN <<>> ELSE CsvRow(f[1], d)

RowGet(fieldnames, row, field) ==
    LET i == CHOOSE k \in 1..Len(fieldnames) :
                 /\ fieldnames[k] = field
                 /\ \A j \in (k + 1)..Len(fieldnames) : fieldnames[j] # field
    IN  IF i <= Len(row) THEN row[i] ELSE <<>>

RECURSIVE StructuredValues(_, _, _, _)
StructuredValues(lines, d, fieldnames, field) ==
    IF lines = <<>> THEN <<>>
    ELSE LET row   == CsvRow(Head(lines), d)
             value == Strip(RowGet(fieldnames, row, field))
             rest  == StructuredValues(Tail(lines), d, fieldnames, field)
         IN  IF row # <<>> /\ value # <<>> THEN <<value>> \o rest ELSE rest

(***************************************************************************)
(* The bare-line fallback (lines 115-121).                                 *)
(***************************************************************************)
BareValue(line) == StripChars(Strip(line), {";", ","})

RECURSIVE BareLines(_)
BareLines(lines) ==
    IF lines = <<>> THEN <<>>
    ELSE LET value == BareValue(Head(lines))
         IN  IF value # <<>> /\ ~StartsWith(Lower(value), ProductPrefix)
             THEN <<value>> \o BareLines(Tail(lines))
             ELSE BareLines(Tail(lines))

(***************************************************************************)
(* read_product_numbers on an existing file f with detected delimiter d:   *)
(* [err |-> TRUE] when it raises ValueError (line 104), otherwise the      *)
(* list it returns.                                                        *)
(***************************************************************************)
read_product_numbers(f, d) ==
    LET fieldnames == Fieldnames(f, d)
        field      == get_product_number_field(fieldnames)
        values     == StructuredValues(Tail(f), d, fieldnames, field)
    IN  IF fieldnames # <<>> /\ field = <<>>
        THEN [err |-> TRUE, values |-> <<>>]
        ELSE IF fieldnames # <<>> /\ values # <<>>
        THEN [err |-> FALSE, values |-> values]
        ELSE [err |-> FALSE, values |-> BareLines(f)]

(***************************************************************************)
(* JSON values, as json.loads returns them.  Every value is a record of    *)
(* the same shape: t is its Python type, s its text (of a str or a         *)
(* number), items the elements of a list, fields the key/value pairs of    *)
(* a dict in the order of the body.                                        *)
(***************************************************************************)
JStr(text)    == [t |-> "str",  s |-> text, items |-> <<>>, fields |-> <<>>]
JNum(text)    == [t |-> "num",  s |-> text, items |-> <<>>, fields |-> <<>>]
JBool(text)   == [t |-> "bool", s |-> text, items |-> <<>>, fields |-> <<>>]
JNull         == [t |-> "null", s |-> "",   items |-> <<>>, fields |-> <<>>]
JList(elems)  == [t |-> "list", s |-> "",   items |-> elems, fields |-> <<>>]
JDict(pairs)  == [t |-> "dict", s |-> "",   items |-> <<>>, fields |-> pairs]
Pair(key, v)  == [k |-> key, val |-> v]

HasKey(obj, key) == \E i \in 1..Len(obj.fields) : obj.fields[i].k = key

\* dict.get(key, default): json.loads keeps the last value of a repeated key
DictGet(obj, key, default) ==
    IF HasKey(obj, key)
    THEN LET i == CHOOSE n \in 1..Len(obj.fields) :
                      /\ obj.fields[n].k = key
                      /\ \A j \in (n + 1)..Len(obj.fields) : obj.fields[j].k # key
         IN  obj.fields[i].val
    ELSE default

IsDict(v) == v.t = "dict"
IsList(v) == v.t = "list"

(***************************************************************************)
(* parse_units_payload (lines 129-139).                                    *)
(***************************************************************************)
WrapperKeysWithoutResults == <<"item_units", "data", "units", "items">>

WrapperKeys == <<"item_units", "data", "units", "results", "items">>

HoldsList(p, key) == IsList(DictGet(p, key, JNull))

parse_units_payload(p) ==
    IF IsList(p) THEN SelectSeq(p.items, IsDict)
    ELSE IF IsDict(p) /\ \E n \in 1..Len(WrapperKeys) : HoldsList(p, WrapperKeys[n])
    THEN LET n == CHOOSE m \in 1..Len(WrapperKeys) :
                      /\ HoldsList(p, WrapperKeys[m])
                      /\ \A j \in 1..(m - 1) : ~HoldsList(p, WrapperKeys[j])
         IN  SelectSeq(DictGet(p, WrapperKeys[n], JNull).items, IsDict)
    ELSE <<>>

(***************************************************************************)
(* to_output_rows (lines 169-179) and the lines write_output_csv writes    *)
(* (lines 182-191).                                                        *)
(***************************************************************************)
EmptyDefault == JStr("")

OutputRow(product_number, unit_item) ==
    [product_number |-> product_number,
     unit           |-> DictGet(unit_item, "unit", EmptyDefault),
     unitname       |-> DictGet(unit_item, "name", EmptyDefault),
     quantity       |-> DictGet(unit_item, "quantity", EmptyDefault)]

\* a flattening that keeps only the first unit record of a product
to_output_rows_first_only(product_number, units) ==
    IF units = <<>> THEN <<>> ELSE <<OutputRow(product_number, units[1])>>

to_output_rows(product_number, units) ==
    [i \in 1..Len(units) |-> OutputRow(product_number, units[i])]

OutputHeader == <<"product_number", "unit", "unitname", "quantity">>

\* the text csv.DictWriter writes for a cell (None is written as empty)
CellText(v) == v.s

CsvLine(row) ==
    [product_number |-> row.product_number,
     cells |-> <<CellText(row.unit), CellText(row.unitname), CellText(row.quantity)>>]

NoFile == [exists |-> FALSE, header |-> <<>>, lines |-> <<>>]

\* a writer that creates no file when there is no row to write
write_output_csv_skipping_empty(rows) ==
    IF rows = <<>> THEN NoFile
    ELSE [exists |-> TRUE,
          header |-> OutputHeader,
          lines  |-> [i \in 1..Len(rows) |-> CsvLine(rows[i])]]

write_output_csv(rows) ==
    [exists |-> TRUE,
     header |-> OutputHeader,
     lines  |-> [i \in 1..Len(rows) |-> CsvLine(rows[i])]]

(***************************************************************************)
(* get_token (lines 52-56): an absent token and an empty one are both      *)
(* falsy, and both are the empty text here.                                *)
(***************************************************************************)
ResolveToken(arg, env) == IF arg # <<>> THEN arg ELSE env

(***************************************************************************)
(* fetch_units_for_product (lines 142-166).  An outcome of one request is  *)
(* what the try block meets: a body that parses ("ok", with the parsed     *)
(* payload), or the exception raised inside it.  HTTPError, URLError and   *)
(* JSONDecodeError are re-raised as RuntimeError; whatever else the block  *)
(* raises leaves the function as it is: TimeoutError from a response that  *)
(* stalls (urlopen wraps only the errors of sending the request) and       *)
(* UnicodeDecodeError from decode("utf-8") on a body that is not UTF-8.    *)
(***************************************************************************)
Converted == {"HTTPError", "URLError", "JSONDecodeError"}

Unconverted == {"TimeoutError", "UnicodeDecodeError"}

RaisedBy(kind) ==
    IF kind = "ok" THEN "none"
    ELSE IF kind \in Converted THEN "RuntimeError"
    ELSE kind

\* an error text that does not name the product number
ErrorTextWithoutProduct(kind, product_number) == [kind |-> kind, product |-> <<>>]

ErrorText(kind, product_number) == [kind |-> kind, product |-> product_number]

(***************************************************************************)
(* The inputs the specifications draw from.                                *)
(***************************************************************************)
LineSku       == <<"s","k","u">>
LineSkuName   == <<" ","S","K","U"," ",";","n">>
LineSkuProdNo == <<"s","k","u",";","p","r","o","d","u","c","t","_","n","o">>
LineProdNo    == <<"p","r","o","d","u","c","t","_","n","o">>
LineA1        == <<"A","1">>
LineA2x       == <<" ","A","2"," ",";","x">>
LineEmptyY    == <<";","y">>
LineBlank     == <<>>
LineProduct7  == <<"P","r","o","d","u","c","t","7">>
LineA3Comma   == <<"A","3",",">>

ReaderLines == {LineSku, LineSkuName, LineSkuProdNo, LineA1, LineA2x,
                LineEmptyY, LineBlank, LineProduct7, LineA3Comma}

DriverLines == {LineProdNo, LineA1, LineA2x}

FilesOver(lines, n) == UNION {[1..m -> lines] : m \in 0..n}

ReaderFiles == FilesOver(ReaderLines, MaxLines)

DriverFiles == FilesOver(DriverLines, MaxDriverLines)

\* --token and RACKBEAT_BEARER_TOKEN: neither given, both given, only the
\* environment variable given
TokenSources == {[arg |-> <<>>,    env |-> <<>>],
                 [arg |-> <<"a">>, env |-> <<" ","e"," ">>],
                 [arg |-> <<>>,    env |-> <<" ","e"," ">>]}

UnitFull == JDict(<<Pair("unit", JStr("pcs")), Pair("name", JStr("Piece")),
                    Pair("quantity", JNum("1"))>>)
UnitOnly == JDict(<<Pair("unit", JStr("box"))>>)

PayloadBare    == JList(<<UnitFull, UnitOnly>>)
PayloadOther   == JDict(<<Pair("message", JStr("none"))>>)

DriverPayloads == {PayloadBare, PayloadOther}

FetchOutcomes ==
    [kind : {"ok"}, payload : DriverPayloads]
        \cup [kind : Converted \cup Unconverted, payload : {JNull}]

WriteOutcomes == {"ok", "OSError"}

\* the payloads of the payload specification
ListItems == {UnitFull, UnitOnly, JNum("7")}
ItemLists == UNION {[1..m -> ListItems] : m \in 0..MaxItems}
ObjectKeys == {"item_units", "data", "units", "results", "items", "message"}
NonLists == {JNull, JStr("x"), JDict(<<Pair("items", JList(<<UnitOnly>>))>>)}

Payloads ==
    {JList(l) : l \in ItemLists}
        \cup {JDict(<<Pair(key, JList(l))>>) : key \in ObjectKeys, l \in ItemLists}
        \cup {JDict(<<Pair(k1, v), Pair(k2, JList(l))>>) :
                 k1 \in ObjectKeys, v \in NonLists, k2 \in ObjectKeys, l \in ItemLists}
        \cup {JDict(<<Pair(key, v)>>) : key \in ObjectKeys, v \in NonLists}
        \cup {JNull, JStr("x"), JNum("7"), JBool("true"), JDict(<<>>)}

(***************************************************************************)
(* State.                                                                  *)
(*   driver: pc, the command line and environment (argToken, envToken,     *)
(*     inputExists, file), main's locals (token, product_numbers, idx,     *)
(*     all_rows, errors), the delimiter detect_delimiter answered,         *)
(*     the network (inflight, requests, responses),     *)
(*     the output file and the number of times it was written, the two     *)
(*     streams, the exit code and the exception that reached main's outer  *)
(*     handler (fatal);                                                    *)
(*   reader: rpc, rfile, rdelim, rresult;                                  *)
(*   payload: ppc, payload, extracted.                                     *)
(***************************************************************************)
VARIABLES pc, argToken, envToken, inputExists, file, token, delimiter,
          product_numbers,
          idx, all_rows, errors, inflight, requests, responses, outFile,
          writes, stdout, stderr, exitCode, fatal,
          rpc, rfile, rdelim, rresult,
          ppc, payload, extracted

driverVars == <<pc, argToken, envToken, inputExists, file, token, delimiter,
                product_numbers, idx, all_rows, errors, inflight, requests,
                responses, outFile, writes, stdout, stderr, exitCode, fatal>>
readerVars == <<rpc, rfile, rdelim, rresult>>
payloadVars == <<ppc, payload, extracted>>
vars == <<driverVars, readerVars, payloadVars>>

Message(text, kind, product, count) ==
    [msg |-> text, kind |-> kind, product |-> product, count |-> count]

DriverIdle ==
    /\ pc = "idle" /\ argToken = <<>> /\ envToken = <<>>
    /\ inputExists = FALSE /\ file = <<>> /\ token = <<>> /\ delimiter = ";"
    /\ product_numbers = <<>> /\ idx = 0 /\ all_rows = <<>> /\ errors = <<>>
    /\ inflight = <<>> /\ requests = <<>> /\ responses = <<>>
    /\ outFile = NoFile /\ writes = 0 /\ stdout = <<>> /\ stderr = <<>>
    /\ exitCode = -1 /\ fatal = ""

ReaderIdle ==
    /\ rpc = "idle" /\ rfile = <<>> /\ rdelim = ";"
    /\ rresult = [err |-> FALSE, values |-> <<>>]

PayloadIdle == ppc = "idle" /\ payload = JNull /\ extracted = <<>>

(***************************************************************************)
(* main (lines 194-240).                                                   *)
(***************************************************************************)
\* a driver that never takes the branch of line 211
NoProductNumbersNeverTaken(values) == FALSE

\* line 211: "if not product_numbers"
NoProductNumbers(values) == values = <<>>

\* a driver that forgets the collected errors when it returns
ReturnCodeIgnoringErrors(errs) == IF errs # <<>> THEN 0 ELSE 0

\* lines 231-237: 2 when an error was collected, 0 otherwise
ReturnCode(errs) == IF errs # <<>> THEN 2 ELSE 0

\* the outer handler (lines 238-240): print "Error: ..." and return 1
Abort(exception) ==
    /\ stderr' = Append(stderr, Message("Error", exception, <<>>, 0))
    /\ fatal' = exception
    /\ exitCode' = 1
    /\ pc' = "done"

\* line 198
GetToken ==
    /\ pc = "start"
    /\ IF ResolveToken(argToken, envToken) = <<>>
       THEN /\ Abort("ValueError")
            /\ UNCHANGED token
       ELSE /\ token' = Strip(ResolveToken(argToken, envToken))
            /\ pc' = "read"
            /\ UNCHANGED <<stderr, fatal, exitCode>>
    /\ UNCHANGED <<argToken, envToken, inputExists, file, delimiter,
                   product_numbers, idx, all_rows, errors, inflight, requests, responses, outFile,
                   writes, stdout>>
    /\ UNCHANGED <<readerVars, payloadVars>>

\* lines 210-216
ReadInput ==
    /\ pc = "read"
    /\ IF ~inputExists
       THEN /\ Abort("FileNotFoundError")
            /\ UNCHANGED <<product_numbers, delimiter>>
       ELSE \E d \in detect_delimiter(file) :
              LET r == read_product_numbers(file, d)
              IN  /\ delimiter' = d
                  /\ IF r.err
                        THEN /\ Abort("ValueError")
                             /\ UNCHANGED product_numbers
                        ELSE IF NoProductNumbers(r.values)
                        THEN /\ stderr' = Append(stderr,
                                    Message("No product numbers found in input CSV.",
                                            "", <<>>, 0))
                             /\ exitCode' = 1
                             /\ pc' = "done"
                             /\ UNCHANGED <<product_numbers, fatal>>
                        ELSE /\ product_numbers' = r.values
                             /\ pc' = "loop"
                             /\ UNCHANGED <<stderr, fatal, exitCode>>
    /\ UNCHANGED <<argToken, envToken, inputExists, file, token, idx, all_rows,
                   errors, inflight, requests, responses, outFile, writes,
                   stdout>>
    /\ UNCHANGED <<readerVars, payloadVars>>

\* lines 218-220 and 143-154: the next product number's request is sent
StartFetch ==
    /\ pc = "loop"
    /\ idx < Len(product_numbers)
    /\ inflight' = Append(inflight, product_numbers[idx + 1])
    /\ requests' = Append(requests, product_numbers[idx + 1])
    /\ pc' = "fetching"
    /\ UNCHANGED <<argToken, envToken, inputExists, file, token, delimiter,
                   product_numbers, idx, all_rows, errors, responses, outFile,
                   writes, stdout, stderr, exitCode, fatal>>
    /\ UNCHANGED <<readerVars, payloadVars>>

\* lines 154-166 and 221-223: the request ends, with a body or an exception
FinishFetch ==
    /\ pc = "fetching"
    /\ \E o \in FetchOutcomes :
         LET product_number == product_numbers[idx + 1]
         IN  /\ responses' = Append(responses,
                                    [product |-> product_number, outcome |-> o])
             /\ inflight' = <<>>
             /\ IF RaisedBy(o.kind) = "none"
                THEN /\ all_rows' = all_rows \o
                          to_output_rows(product_number,
                                         parse_units_payload(o.payload))
                     /\ idx' = idx + 1
                     /\ pc' = "loop"
                     /\ UNCHANGED <<errors, stderr, fatal, exitCode>>
                ELSE IF RaisedBy(o.kind) = "RuntimeError"
                THEN /\ errors' = Append(errors, ErrorText(o.kind, product_number))
                     /\ idx' = idx + 1
                     /\ pc' = "loop"
                     /\ UNCHANGED <<all_rows, stderr, fatal, exitCode>>
                ELSE /\ Abort(RaisedBy(o.kind))
                     /\ UNCHANGED <<all_rows, errors, idx>>
    /\ UNCHANGED <<argToken, envToken, inputExists, file, token, delimiter,
                   product_numbers, requests, outFile, writes, stdout>>
    /\ UNCHANGED <<readerVars, payloadVars>>

\* lines 225-237: the file is written, the summary printed, the code returned
FinishRun ==
    /\ pc = "loop"
    /\ idx = Len(product_numbers)
    /\ \E w \in WriteOutcomes :
         IF w = "ok"
         THEN /\ outFile' = write_output_csv(all_rows)
              /\ writes' = writes + 1
              /\ stdout' = Append(stdout, [processed |-> Len(product_numbers),
                                           rows |-> Len(all_rows)])
              /\ stderr' = IF errors # <<>>
                           THEN (stderr \o <<Message("Errors", "", <<>>, Len(errors))>>)
                                 \o [i \in 1..Len(errors) |->
                                       Message("-", errors[i].kind,
                                               errors[i].product, 0)]
                           ELSE stderr
              /\ exitCode' = ReturnCode(errors)
              /\ pc' = "done"
              /\ UNCHANGED fatal
         ELSE /\ Abort(w)
              /\ UNCHANGED <<outFile, writes, stdout>>
    /\ UNCHANGED <<argToken, envToken, inputExists, file, token, delimiter,
                   product_numbers, idx, all_rows, errors, inflight, requests,
                   responses>>
    /\ UNCHANGED <<readerVars, payloadVars>>

Init ==
    /\ pc = "start"
    /\ \E t \in TokenSources : argToken = t.arg /\ envToken = t.env
    /\ inputExists \in BOOLEAN
    /\ file \in IF inputExists THEN DriverFiles ELSE {<<>>}
    /\ token = <<>> /\ delimiter = ";" /\ product_numbers = <<>> /\ idx = 0
    /\ all_rows = <<>> /\ errors = <<>>
    /\ inflight = <<>> /\ requests = <<>> /\ responses = <<>>
    /\ outFile = NoFile /\ writes = 0 /\ stdout = <<>> /\ stderr = <<>>
    /\ exitCode = -1 /\ fatal = ""
    /\ ReaderIdle
    /\ PayloadIdle

Next == GetToken \/ ReadInput \/ StartFetch \/ FinishFetch \/ FinishRun

Spec == Init /\ [][Next]_vars

(***************************************************************************)
(* The reader alone: read_product_numbers on every file of ReaderFiles.    *)
(***************************************************************************)
\* lines 94-97
ReaderSniff ==
    /\ rpc = "open"
    /\ rdelim' \in detect_delimiter(rfile)
    /\ rpc' = "sniffed"
    /\ UNCHANGED <<rfile, rresult>>
    /\ UNCHANGED <<driverVars, payloadVars>>

\* lines 99-121
ReaderRead ==
    /\ rpc = "sniffed"
    /\ rresult' = read_product_numbers(rfile, rdelim)
    /\ rpc' = "returned"
    /\ UNCHANGED <<rfile, rdelim>>
    /\ UNCHANGED <<driverVars, payloadVars>>

InitReader ==
    /\ rpc = "open"
    /\ rfile \in ReaderFiles
    /\ rdelim = ";"
    /\ rresult = [err |-> FALSE, values |-> <<>>]
    /\ DriverIdle
    /\ PayloadIdle

NextReader == ReaderSniff \/ ReaderRead

SpecReader == InitReader /\ [][NextReader]_vars

(***************************************************************************)
(* The payload unwrapping alone: parse_units_payload on every payload of   *)
(* Payloads.                                                               *)
(***************************************************************************)
Parse ==
    /\ ppc = "body"
    /\ extracted' = parse_units_payload(payload)
    /\ ppc' = "parsed"
    /\ UNCHANGED payload
    /\ UNCHANGED <<driverVars, readerVars>>

InitPayload ==
    /\ ppc = "body"
    /\ payload \in Payloads
    /\ extracted = <<>>
    /\ DriverIdle
    /\ ReaderIdle

NextPayload == Parse

SpecPayload == InitPayload /\ [][NextPayload]_vars

(***************************************************************************)
(* What the claims speak of, read off the run's record: the responses the  *)
(* server gave, in the order it gave them.                                 *)
(***************************************************************************)
Kind(i) == responses[i].outcome.kind

Succeeded(i) == Kind(i) = "ok"

FailedResponses == {i \in 1..Len(responses) : ~Succeeded(i)}

\* the failures the error taxonomy names: HttpStatus, Transport (a network
\* error or a timeout), InvalidPayload (a body that is not JSON)
NamedFailures == {"HTTPError", "URLError", "TimeoutError", "JSONDecodeError"}

LoopEnded == pc = "loop" /\ idx = Len(product_numbers)

TokenGiven == ResolveToken(argToken, envToken) # <<>>

FieldText(unit_item, key) ==
    IF HasKey(unit_item, key) THEN DictGet(unit_item, key, JNull).s ELSE ""

LinesOf(product_number, units) ==
    [j \in 1..Len(units) |->
        [product_number |-> product_number,
         cells |-> <<FieldText(units[j], "unit"), FieldText(units[j], "name"),
                     FieldText(units[j], "quantity")>>]]

RECURSIVE ExpectedLines(_)
ExpectedLines(rs) ==
    IF rs = <<>> THEN <<>>
    ELSE (IF Head(rs).outcome.kind = "ok"
          THEN LinesOf(Head(rs).product, parse_units_payload(Head(rs).outcome.payload))
          ELSE <<>>) \o ExpectedLines(Tail(rs))

\* the reader returned the empty list
YieldsNothing ==
    read_product_numbers(file, delimiter) = [err |-> FALSE, values |-> <<>>]

\* what a run that found no product number leaves behind
NothingDone ==
    /\ requests = <<>>
    /\ ~outFile.exists /\ writes = 0
    /\ stdout = <<>>
    /\ stderr = <<Message("No product numbers found in input CSV.", "", <<>>, 0)>>
    /\ exitCode = 1

RECURSIVE ExpectedErrors(_)
ExpectedErrors(rs) ==
    IF rs = <<>> THEN <<>>
    ELSE (IF Head(rs).outcome.kind = "ok"
          THEN <<>>
          ELSE <<[kind |-> Head(rs).outcome.kind, product |-> Head(rs).product]>>)
         \o ExpectedErrors(Tail(rs))

(***************************************************************************)
(* C1: a failed fetch (HttpStatus, Transport including a timeout,          *)
(* InvalidPayload) never stops the run: when the run has ended and some    *)
(* fetch failed, every product number was requested, every failure is in   *)
(* the error list and the output file was written.  (A run whose write     *)
(* itself failed is left aside.)                                           *)
(***************************************************************************)
C1_FailedFetchNeverStopsRun ==
    ( /\ pc = "done"
      /\ fatal # "OSError"
      /\ FailedResponses # {}
      /\ \A i \in FailedResponses : Kind(i) \in NamedFailures )
    => /\ requests = product_numbers
       /\ Len(errors) = Cardinality(FailedResponses)
       /\ outFile.exists

C3_RowsAreConcatenation ==
    outFile.exists =>
       /\ Len(responses) = Len(product_numbers)
       /\ \A i \in 1..Len(responses) : responses[i].product = product_numbers[i]
       /\ outFile.header = OutputHeader
       /\ outFile.lines = ExpectedLines(responses)

C3_Witness ==
    /\ outFile.exists
    /\ Len(product_numbers) = 3
    /\ Succeeded(1) /\ responses[1].outcome.payload = PayloadBare
    /\ Kind(2) = "URLError"
    /\ Succeeded(3) /\ responses[3].outcome.payload = PayloadOther
    /\ Len(outFile.lines) = 2

(***************************************************************************)
(* C4: at the end of the driver loop the error list holds one entry per    *)
(* failed product number, in input order, each naming its product number;  *)
(* a product number gives its rows or one error entry, never both, so      *)
(* successes plus errors is the number of product numbers processed.       *)
(***************************************************************************)
C4_ErrorsMatchFailures ==
    LoopEnded =>
       /\ Len(responses) = Len(product_numbers)
       /\ \A i \in 1..Len(responses) : responses[i].product = product_numbers[i]
       /\ errors = ExpectedErrors(responses)
       /\ Len(all_rows) = Len(ExpectedLines(responses))
       /\ \A i \in FailedResponses :
             \A j \in 1..Len(all_rows) :
                all_rows[j].product_number = product_numbers[i]
                   => \E k \in 1..Len(responses) :
                         Succeeded(k) /\ product_numbers[k] = product_numbers[i]
       /\ (Len(responses) - Cardinality(FailedResponses)) + Len(errors)
             = Len(product_numbers)

C4_Witness ==
    /\ LoopEnded
    /\ Len(product_numbers) = 3
    /\ Kind(1) = "JSONDecodeError"
    /\ Succeeded(2)
    /\ Kind(3) = "HTTPError"
    /\ Len(errors) = 2

C9_OneRequestPerEntry ==
    /\ Len(inflight) <= 1
    /\ Len(requests) <= Len(product_numbers)
    /\ \A i \in 1..Len(requests) : requests[i] = product_numbers[i]
    /\ (pc = "done" /\ product_numbers # <<>>) => requests = product_numbers

(***************************************************************************)
(* C10: the output file is written once, after the last fetch has ended,   *)
(* never while the loop runs; so when every fetch of a non-empty list      *)
(* fails with a collected error and the write itself does not fail, the    *)
(* file holds the header line alone and the run exits 2.                   *)
(***************************************************************************)
C10_WrittenOnceAfterLoop ==
    /\ writes <= 1
    /\ outFile.exists <=> writes = 1
    /\ outFile.exists => /\ pc = "done"
                         /\ inflight = <<>>
                         /\ Len(responses) = Len(product_numbers)
    /\ ( /\ pc = "done"
         /\ product_numbers # <<>>
         /\ Len(errors) = Len(product_numbers)
         /\ fatal # "OSError" )
       => /\ outFile = [exists |-> TRUE, header |-> OutputHeader, lines |-> <<>>]
          /\ writes = 1
          /\ exitCode = 2

C10_Witness ==
    /\ pc = "done"
    /\ Len(product_numbers) = 2
    /\ Len(errors) = 2
    /\ outFile.exists
    /\ outFile.lines = <<>>
    /\ exitCode = 2

(***************************************************************************)
(* What the reader's claims speak of.                                      *)
(***************************************************************************)
NonEmptyText(x) == x # <<>>

NotHeaderLooking(x) == x # <<>> /\ ~StartsWith(Lower(x), ProductPrefix)

\* every non-empty line that does not start with "product", stripped
ExpectedBare(f) ==
    SelectSeq([i \in 1..Len(f) |-> BareValue(f[i])], NotHeaderLooking)

\* a file of bare product numbers, one per line and no delimiter in any
\* line, whose first line is a product number
HeaderlessBare(f) ==
    /\ f # <<>>
    /\ \A i \in 1..Len(f) : \A c \in SniffDelimiters : ~Occurs(c, f[i])
    /\ NotHeaderLooking(BareValue(f[1]))
    /\ \A c \in 1..Len(candidates) : Normalize(f[1]) # candidates[c]

\* the recognized column of a header: the column of the first candidate of
\* the list that the header holds (the last such column when it is repeated)
RecognizedColumn(fieldnames) ==
    LET best == CHOOSE c \in 1..Len(candidates) :
                    /\ \E k \in 1..Len(fieldnames) :
                          Normalize(fieldnames[k]) = candidates[c]
                    /\ \A b \in 1..(c - 1) : \A k \in 1..Len(fieldnames) :
                          Normalize(fieldnames[k]) # candidates[b]
    IN  CHOOSE k \in 1..Len(fieldnames) :
            /\ Normalize(fieldnames[k]) = candidates[best]
            /\ \A j \in (k + 1)..Len(fieldnames) :
                  Normalize(fieldnames[j]) # candidates[best]

\* the non-empty trimmed values of the recognized column, in row order
ColumnValues(f, d) ==
    LET col == RecognizedColumn(Fieldnames(f, d))
        cell(i) == LET row == CsvRow(f[i + 1], d)
                   IN  IF col <= Len(row) THEN Strip(row[col]) ELSE <<>>
    IN  SelectSeq([i \in 1..(Len(f) - 1) |-> cell(i)], NonEmptyText)

Recognized == rpc = "returned" /\ HasCandidate(Fieldnames(rfile, rdelim))

\* what the payload claim speaks of
RECURSIVE DictItems(_)
DictItems(l) ==
    IF l = <<>> THEN <<>>
    ELSE IF Head(l).t = "dict" THEN <<Head(l)>> \o DictItems(Tail(l))
    ELSE DictItems(Tail(l))

KnownWrappers == {"item_units", "data", "units", "results", "items"}

WrapsOneList(p) ==
    /\ p.t = "dict"
    /\ Len(p.fields) = 1
    /\ p.fields[1].k \in KnownWrappers
    /\ p.fields[1].val.t = "list"

OtherShape(p) ==
    /\ p.t # "list"
    /\ ~(p.t = "dict" /\ \E key \in KnownWrappers : DictGet(p, key, JNull).t = "list")

(***************************************************************************)
(* C6: for a file without a header row, one bare product number per line,  *)
(* read_product_numbers returns every non-empty line that does not start   *)
(* with "product", in file order, stripped of delimiters; the first line   *)
(* is not lost.                                                            *)
(***************************************************************************)
C6_HeaderlessFileKeepsEveryLine ==
    (rpc = "returned" /\ HeaderlessBare(rfile))
       => rresult = [err |-> FALSE, values |-> ExpectedBare(rfile)]

(***************************************************************************)
(* C7: whenever the header holds a recognizable product-number column, the *)
(* result is exactly the non-empty trimmed values of that column, in row   *)
(* order, the empty list when every value is empty.                        *)
(***************************************************************************)
C7_RecognizedColumnAlways ==
    Recognized => rresult = [err |-> FALSE, values |-> ColumnValues(rfile, rdelim)]

(***************************************************************************)
(* C8: a bare list and each object wrapping that list under item_units,    *)
(* data, units, results or items give the same extracted list, the dicts   *)
(* of the list in order; extracting again from the extracted list changes  *)
(* nothing; every other shape gives the empty list.                        *)
(***************************************************************************)
C8_SameListFromEveryShape ==
    ppc = "parsed" =>
       /\ payload.t = "list" => extracted = DictItems(payload.items)
       /\ WrapsOneList(payload) =>
             /\ extracted = DictItems(payload.fields[1].val.items)
             /\ extracted = parse_units_payload(JList(payload.fields[1].val.items))
       /\ parse_units_payload(JList(extracted)) = extracted
       /\ OtherShape(payload) => extracted = <<>>

C8_Witness ==
    /\ ppc = "parsed"
    /\ payload = JDict(<<Pair("results", JList(<<UnitFull, JNum("7")>>))>>)
    /\ extracted = <<UnitFull>>
====
